---- MODULE Spec2Model ----
(***************************************************************************)
(* Model of extract_indicators, the regex-based indicator extractor of     *)
(* labs/lab4/app/log_explainer_agent/agent.py.                             *)
(*                                                                         *)
(* A text is a sequence of code points (Python str); the patterns of the   *)
(* source are syntax trees run by a backtracking matcher with the          *)
(* priorities of Python's re module (greedy repeats, ordered alternation,  *)
(* first success wins, findall scans left to right without overlap).       *)
(* Characters are ASCII: the Unicode digits, letters and spaces that \d,   *)
(* \b and \s also accept in Python 3 are outside the alphabet modelled.    *)
(***************************************************************************)
EXTENDS Integers, Sequences, FiniteSets, TLC

VARIABLES log_text, pc, frame, result, previous

vars == <<log_text, pc, frame, result, previous>>

(***************************************************************************)
(* Bounds                                                                  *)
(***************************************************************************)
\* an input text is the concatenation of at most MaxPieces pieces
MaxPieces == 3
\* number of callers running extract_indicators side by side
NumCallers == 2

Callers == 1..NumCallers

(***************************************************************************)
(* Characters and character classes                                        *)
(***************************************************************************)
Digit == 48..57
UpperAZ == 65..90
LowerAZ == 97..122
\* \w of re: alphanumerics and the underscore
WordChar == Digit \cup UpperAZ \cup LowerAZ \cup {95}
\* \s of re (ASCII part): \t \n \v \f \r, FS GS RS US, space
Whitespace == (9..13) \cup (28..32)

Lower(ch) == IF ch \in UpperAZ THEN ch + 32 ELSE ch
Upper(ch) == IF ch \in LowerAZ THEN ch - 32 ELSE ch

IsWord(text, i) == i >= 1 /\ i <= Len(text) /\ text[i] \in WordChar

\* \b at position p (between text[p-1] and text[p])
AtBoundary(text, p) == IsWord(text, p - 1) # IsWord(text, p)

(***************************************************************************)
(* Pattern syntax                                                          *)
(***************************************************************************)
Unbounded == 0 - 1

Cls(S) == [t |-> "cls", neg |-> FALSE, set |-> S]
NotCls(S) == [t |-> "cls", neg |-> TRUE, set |-> S]
Lit(ch) == Cls({ch})
WB == [t |-> "wb"]
Rep(body, lo, hi) == [t |-> "rep", body |-> body, min |-> lo, max |-> hi]
Alt(alts) == [t |-> "alt", alts |-> alts]

\* a literal string as a pattern
Lits(s) == [i \in 1..Len(s) |-> Lit(s[i])]

InClass(n, ch, ic) ==
    LET hit == \/ ch \in n.set
               \/ ic /\ (Lower(ch) \in n.set \/ Upper(ch) \in n.set)
    IN  hit # n.neg

(***************************************************************************)
(* The matcher: Match(k, text, p, ic) is the position after the match of   *)
(* the pattern k (a sequence of nodes, the continuation included) that     *)
(* starts at p, as the backtracking search finds it first; 0 if none.      *)
(* ic is the IGNORECASE flag.                                              *)
(***************************************************************************)
\* how many characters from p on are in class n, hi at most
Run(n, text, p, hi, ic) ==
    Cardinality({m \in 1..hi : \A i \in p..(p + m - 1) : InClass(n, text[i], ic)})

RECURSIVE Match(_, _, _, _)
RECURSIVE MatchAlt(_, _, _, _, _, _)
RECURSIVE BackOff(_, _, _, _, _, _)

\* ordered alternation: the first alternative that lets the rest match
MatchAlt(alts, i, rest, text, p, ic) ==
    IF i > Len(alts) THEN 0
    ELSE LET r == Match(alts[i] \o rest, text, p, ic)
         IN  IF r # 0 THEN r ELSE MatchAlt(alts, i + 1, rest, text, p, ic)

\* a greedy one-character repeat gives back one character at a time, from
\* j taken down to lo, until the rest matches
BackOff(rest, text, p, lo, j, ic) ==
    IF j < lo THEN 0
    ELSE LET r == Match(rest, text, p + j, ic)
         IN  IF r # 0 THEN r ELSE BackOff(rest, text, p, lo, j - 1, ic)

Match(k, text, p, ic) ==
    IF Len(k) = 0 THEN p
    ELSE
      LET n == Head(k)
          rest == Tail(k)
      IN  CASE n.t = "cls" ->
                 IF p <= Len(text) /\ InClass(n, text[p], ic)
                 THEN Match(rest, text, p + 1, ic)
                 ELSE 0
            [] n.t = "wb" ->
                 IF AtBoundary(text, p) THEN Match(rest, text, p, ic) ELSE 0
            [] n.t = "rep" /\ Len(n.body) = 1 /\ n.body[1].t = "cls" ->
                 LET left == Len(text) - p + 1
                     hi == IF n.max = Unbounded \/ n.max > left THEN left ELSE n.max
                 IN  BackOff(rest, text, p, n.min, Run(n.body[1], text, p, hi, ic), ic)
            [] n.t = "rep" ->
                 IF n.max = 0 THEN Match(rest, text, p, ic)
                 ELSE
                   LET again == Rep(n.body,
                                    IF n.min > 0 THEN n.min - 1 ELSE 0,
                                    IF n.max = Unbounded THEN Unbounded ELSE n.max - 1)
                       r == Match(n.body \o <<again>> \o rest, text, p, ic)
                   IN  IF r # 0 THEN r
                       ELSE IF n.min = 0 THEN Match(rest, text, p, ic)
                       ELSE 0
            [] n.t = "alt" -> MatchAlt(n.alts, 1, rest, text, p, ic)

\* the matches from position from on, left to right and without overlap;
\* ends[s] is the end of the match that starts at s
RECURSIVE Collect(_, _, _)
Collect(text, ends, from) ==
    LET starts == {s \in from..(Len(text) + 1) : ends[s] # 0}
    IN  IF starts = {} THEN <<>>
        ELSE LET s == CHOOSE x \in starts : \A y \in starts : x <= y
             IN  <<SubSeq(text, s, ends[s] - 1)>>
                   \o Collect(text, ends, IF ends[s] = s THEN s + 1 ELSE ends[s])

\* pattern.findall(text)
FindAll(re, text) ==
    Collect(text, [s \in 1..(Len(text) + 1) |-> Match(re, text, s, FALSE)], 1)

\* re.search(pattern, text, flags=re.IGNORECASE) is not None
SearchIC(re, text) == \E s \in 1..(Len(text) + 1) : Match(re, text, s, TRUE) # 0

(***************************************************************************)
(* set() and sorted()                                                      *)
(***************************************************************************)
PySet(list) == {list[i] : i \in DOMAIN list}

\* fault: sorted(..., key=len), the shorter string first
StrLess_by_length(a, b) ==
    \/ Len(a) < Len(b)
    \/ /\ Len(a) = Len(b)
       /\ \E i \in 1..Len(b) : (\A j \in 1..(i - 1) : a[j] = b[j]) /\ a[i] < b[i]

\* a < b on Python str: by code point, a proper prefix first
StrLess(a, b) ==
    \E i \in 1..Len(b) :
        /\ i <= Len(a) + 1
        /\ \A j \in 1..(i - 1) : a[j] = b[j]
        /\ (i = Len(a) + 1 \/ a[i] < b[i])

RECURSIVE Sorted(_)
Sorted(S) ==
    IF S = {} THEN <<>>
    ELSE LET m == CHOOSE x \in S : \A y \in S : x = y \/ StrLess(x, y)
         IN  <<m>> \o Sorted(S \ {m})

(***************************************************************************)
(* The patterns of extract_indicators                                      *)
(***************************************************************************)
\* \b(?:\d{1,3}\.){3}\d{1,3}\b
ip_re ==
    <<WB, Rep(<<Rep(<<Cls(Digit)>>, 1, 3), Lit(46)>>, 3, 3),
      Rep(<<Cls(Digit)>>, 1, 3), WB>>

\* fault: the last segment also takes digits, [a-zA-Z0-9]{2,}
domain_re_digit_tld ==
    <<WB,
      Rep(<<Rep(<<Cls(LowerAZ \cup UpperAZ \cup Digit \cup {45})>>, 1, Unbounded),
            Lit(46)>>, 1, Unbounded),
      Rep(<<Cls(LowerAZ \cup UpperAZ \cup Digit)>>, 2, Unbounded), WB>>

\* \b(?:[a-zA-Z0-9-]+\.)+[a-zA-Z]{2,}\b
domain_re ==
    <<WB,
      Rep(<<Rep(<<Cls(LowerAZ \cup UpperAZ \cup Digit \cup {45})>>, 1, Unbounded),
            Lit(46)>>, 1, Unbounded),
      Rep(<<Cls(LowerAZ \cup UpperAZ)>>, 2, Unbounded), WB>>

\* \bhttps?://[^\s)>"]+\b
url_re ==
    <<WB>> \o Lits(<<104, 116, 116, 112>>) \o <<Rep(<<Lit(115)>>, 0, 1)>>
      \o Lits(<<58, 47, 47>>)
      \o <<Rep(<<NotCls(Whitespace \cup {41, 62, 34})>>, 1, Unbounded), WB>>

\* (?:(?:/[^ \n\t\r]+)+)
unix_path_re ==
    <<Rep(<<Lit(47), Rep(<<NotCls({32, 10, 9, 13})>>, 1, Unbounded)>>, 1, Unbounded)>>

\* \b[A-Za-z]:\\[^\n\r\t]+\b
win_path_re ==
    <<WB, Cls(UpperAZ \cup LowerAZ), Lit(58), Lit(92),
      Rep(<<NotCls({10, 13, 9})>>, 1, Unbounded), WB>>

\* fault: one alternative too many, 6\d{2}
status_re_to_6 ==
    <<WB,
      Alt([d \in 1..6 |-> <<Lit(48 + d), Rep(<<Cls(Digit)>>, 2, 2)>>]),
      WB>>

\* \b(1\d{2}|2\d{2}|3\d{2}|4\d{2}|5\d{2})\b ; the one group spans the whole
\* match, so findall's group strings are the matches
status_re ==
    <<WB,
      Alt([d \in 1..5 |-> <<Lit(48 + d), Rep(<<Cls(Digit)>>, 2, 2)>>]),
      WB>>

\* ["error", "failed", "denied", "timeout", "exception", "forbidden", "unauthorized"]
KEYWORDS ==
    << <<101, 114, 114, 111, 114>>,
       <<102, 97, 105, 108, 101, 100>>,
       <<100, 101, 110, 105, 101, 100>>,
       <<116, 105, 109, 101, 111, 117, 116>>,
       <<101, 120, 99, 101, 112, 116, 105, 111, 110>>,
       <<102, 111, 114, 98, 105, 100, 100, 101, 110>>,
       <<117, 110, 97, 117, 116, 104, 111, 114, 105, 122, 101, 100>> >>

\* fault: the closing \b left out
kw_re_open_end(kw) == <<WB>> \o Lits(kw)

\* rf"\b{kw}\b"
kw_re(kw) == <<WB>> \o Lits(kw) \o <<WB>>

(***************************************************************************)
(* Input texts                                                             *)
(***************************************************************************)
\* None (no str): a one-element sequence whose element is no code point
None == <<0 - 1>>

\* "10.0.0.1" "9.9.9.9" "1" "." "a.bc" "x" "-" " " "_"
NetPieces ==
    { <<49, 48, 46, 48, 46, 48, 46, 49>>, <<57, 46, 57, 46, 57, 46, 57>>,
      <<49>>, <<46>>, <<97, 46, 98, 99>>, <<120>>, <<45>>, <<32>>, <<95>> }

\* "100" "599" "600" "099" "4" "_" " " "a" "-"
StatusPieces ==
    { <<49, 48, 48>>, <<53, 57, 57>>, <<54, 48, 48>>, <<48, 57, 57>>, <<52>>,
      <<95>>, <<32>>, <<97>>, <<45>> }

\* "error" "ERROR" "Denied" "failed" "s" "_" " " ":"
KeywordPieces ==
    { <<101, 114, 114, 111, 114>>, <<69, 82, 82, 79, 82>>,
      <<68, 101, 110, 105, 101, 100>>, <<102, 97, 105, 108, 101, 100>>,
      <<115>>, <<95>>, <<32>>, <<58>> }

\* "/var/log/app.log"
UnixPath == <<47, 118, 97, 114, 47, 108, 111, 103, 47, 97, 112, 112, 46, 108, 111, 103>>
\* "C:\Users\test\file.txt"
WinPath ==
    <<67, 58, 92, 85, 115, 101, 114, 115, 92, 116, 101, 115, 116, 92,
      102, 105, 108, 101, 46, 116, 120, 116>>

\* the two paths, " " "\n" "\t" "and"
PathPieces == { UnixPath, WinPath, <<32>>, <<10>>, <<9>>, <<97, 110, 100>> }

\* "http://" "https://" "X.io" "b.io" "/p" ")" " "
UrlPieces ==
    { <<104, 116, 116, 112, 58, 47, 47>>, <<104, 116, 116, 112, 115, 58, 47, 47>>,
      <<88, 46, 105, 111>>, <<98, 46, 105, 111>>, <<47, 112>>, <<41>>, <<32>> }

\* "Connect to 10.0.0.1 and api.example.com"
ExampleNet ==
    <<67, 111, 110, 110, 101, 99, 116, 32, 116, 111, 32, 49, 48, 46, 48, 46, 48,
      46, 49, 32, 97, 110, 100, 32, 97, 112, 105, 46, 101, 120, 97, 109, 112, 108,
      101, 46, 99, 111, 109>>
\* "returned code 404 after 999 retries"
ExampleStatus ==
    <<114, 101, 116, 117, 114, 110, 101, 100, 32, 99, 111, 100, 101, 32, 52, 48,
      52, 32, 97, 102, 116, 101, 114, 32, 57, 57, 57, 32, 114, 101, 116, 114, 105,
      101, 115>>
\* "ERROR: Access Denied"
ExampleKeywords ==
    <<69, 82, 82, 79, 82, 58, 32, 65, 99, 99, 101, 115, 115, 32, 68, 101, 110,
      105, 101, 100>>

Examples == {ExampleNet, ExampleStatus, ExampleKeywords}

\* the texts made of at most n pieces of P
RECURSIVE Concats(_, _)
Concats(P, n) ==
    IF n = 0 THEN {<<>>}
    ELSE LET shorter == Concats(P, n - 1)
         IN  shorter \cup {a \o b : a \in shorter, b \in P}

PieceSets == {NetPieces, StatusPieces, KeywordPieces, PathPieces, UrlPieces}

Inputs == {None} \cup Examples \cup UNION {Concats(P, MaxPieces) : P \in PieceSets}

\* the texts concurrent callers pass: "ERROR: Access Denied" and
\* "9.9.9.9 a.bc /p 404"
ConcInputs ==
    << ExampleKeywords,
       <<57, 46, 57, 46, 57, 46, 57, 32, 97, 46, 98, 99, 32, 47, 112, 32, 52, 48, 52>> >>

(***************************************************************************)
(* extract_indicators, statement by statement; frame[c] holds the locals   *)
(* of caller c's invocation                                                *)
(***************************************************************************)
NoFrame ==
    [text |-> <<>>, ips |-> <<>>, domains |-> <<>>, urls |-> <<>>,
     file_paths |-> <<>>, statuses |-> <<>>, keywords |-> <<>>, k |-> 0]

NoReport == [ok |-> FALSE]

\* fault: text = log_text, without the or ""
OrEmpty_missing(x) == x

\* log_text or ""
OrEmpty(x) == IF x = None \/ x = <<>> THEN <<>> ELSE x

\* text = log_text or ""
Enter(c) ==
    /\ pc[c] = "call"
    /\ frame' = [frame EXCEPT ![c] = [NoFrame EXCEPT !.text = OrEmpty(log_text[c])]]
    /\ pc' = [pc EXCEPT ![c] = "ip"]
    /\ UNCHANGED <<log_text, result, previous>>

\* ips = sorted(set(ip_re.findall(text))); findall raises TypeError on None
StepIp(c) ==
    /\ pc[c] = "ip"
    /\ IF frame[c].text = None
       THEN /\ pc' = [pc EXCEPT ![c] = "raised"]
            /\ UNCHANGED frame
       ELSE /\ frame' = [frame EXCEPT ![c].ips =
                            Sorted(PySet(FindAll(ip_re, frame[c].text)))]
            /\ pc' = [pc EXCEPT ![c] = "domain"]
    /\ UNCHANGED <<log_text, result, previous>>

\* fault: any dotted token is a domain, and nothing is excluded
Domains_unfiltered(text, ips) ==
    Sorted(PySet(FindAll(
        <<WB,
          Rep(<<Rep(<<Cls(LowerAZ \cup UpperAZ \cup Digit \cup {45})>>, 1, Unbounded),
                Lit(46)>>, 1, Unbounded),
          Rep(<<Cls(LowerAZ \cup UpperAZ \cup Digit)>>, 1, Unbounded), WB>>,
        text)))

\* domains_all = domain_re.findall(text)
\* domains = sorted({d for d in domains_all if d not in ips})
Domains(text, ips) ==
    Sorted({d \in PySet(FindAll(domain_re, text)) : d \notin PySet(ips)})

StepDomain(c) ==
    /\ pc[c] = "domain"
    /\ frame' = [frame EXCEPT ![c].domains = Domains(frame[c].text, frame[c].ips)]
    /\ pc' = [pc EXCEPT ![c] = "url"]
    /\ UNCHANGED <<log_text, result, previous>>

\* urls = sorted(set(url_re.findall(text)))
StepUrl(c) ==
    /\ pc[c] = "url"
    /\ frame' = [frame EXCEPT ![c].urls =
                    Sorted(PySet(FindAll(url_re, frame[c].text)))]
    /\ pc' = [pc EXCEPT ![c] = "path"]
    /\ UNCHANGED <<log_text, result, previous>>

\* file_paths = sorted(set(unix_path_re.findall(text) + win_path_re.findall(text)))
FilePaths(text) ==
    Sorted(PySet(FindAll(unix_path_re, text) \o FindAll(win_path_re, text)))

StepPath(c) ==
    /\ pc[c] = "path"
    /\ frame' = [frame EXCEPT ![c].file_paths = FilePaths(frame[c].text)]
    /\ pc' = [pc EXCEPT ![c] = "status"]
    /\ UNCHANGED <<log_text, result, previous>>

\* statuses = sorted(set(status_re.findall(text))); keywords = []
StepStatus(c) ==
    /\ pc[c] = "status"
    /\ frame' = [frame EXCEPT ![c].statuses =
                    Sorted(PySet(FindAll(status_re, frame[c].text))),
                              ![c].keywords = <<>>,
                              ![c].k = 1]
    /\ pc' = [pc EXCEPT ![c] = "kw"]
    /\ UNCHANGED <<log_text, result, previous>>

\* fault: keywords.insert(0, kw) in place of append
KeywordTurn_prepend(f) ==
    [f EXCEPT !.keywords = IF SearchIC(kw_re(KEYWORDS[f.k]), f.text)
                           THEN <<KEYWORDS[f.k]>> \o f.keywords
                           ELSE f.keywords,
              !.k = f.k + 1]

\* one turn of: for kw in [...]: if re.search(...): keywords.append(kw)
KeywordTurn(f) ==
    [f EXCEPT !.keywords = IF SearchIC(kw_re(KEYWORDS[f.k]), f.text)
                           THEN Append(f.keywords, KEYWORDS[f.k])
                           ELSE f.keywords,
              !.k = f.k + 1]

\* fault: keywords is one list of the module, here the one held by caller 1
StepKeyword_shared(c) ==
    /\ pc[c] = "kw"
    /\ frame[c].k <= Len(KEYWORDS)
    /\ frame' = [frame EXCEPT
                   ![1].keywords =
                       IF SearchIC(kw_re(KEYWORDS[frame[c].k]), frame[c].text)
                       THEN Append(frame[1].keywords, KEYWORDS[frame[c].k])
                       ELSE frame[1].keywords,
                   ![c].k = frame[c].k + 1]
    /\ UNCHANGED <<log_text, pc, result, previous>>

StepKeyword(c) ==
    /\ pc[c] = "kw"
    /\ frame[c].k <= Len(KEYWORDS)
    /\ frame' = [frame EXCEPT ![c] = KeywordTurn(frame[c])]
    /\ UNCHANGED <<log_text, pc, result, previous>>

\* fault: status_codes counted from the wrong list
Counts_wrong_list(f) ==
    [ips |-> Len(f.ips), domains |-> Len(f.domains), urls |-> Len(f.urls),
     file_paths |-> Len(f.file_paths), status_codes |-> Len(f.urls)]

\* the "counts" entry of the returned dict
Counts(f) ==
    [ips |-> Len(f.ips), domains |-> Len(f.domains), urls |-> Len(f.urls),
     file_paths |-> Len(f.file_paths), status_codes |-> Len(f.statuses)]

\* the returned dict
MakeReport(f) ==
    [ok |-> TRUE, counts |-> Counts(f), ips |-> f.ips, domains |-> f.domains,
     urls |-> f.urls, file_paths |-> f.file_paths, status_codes |-> f.statuses,
     keywords |-> f.keywords]

Return(c) ==
    /\ pc[c] = "kw"
    /\ frame[c].k > Len(KEYWORDS)
    /\ result' = [result EXCEPT ![c] = MakeReport(frame[c])]
    /\ pc' = [pc EXCEPT ![c] = "done"]
    /\ UNCHANGED <<log_text, frame, previous>>

\* the caller invokes the tool once more on its text, with the report of
\* the invocation before in previous[c]; the new invocation has new locals
Again(c) ==
    /\ pc[c] = "done"
    /\ previous' = [previous EXCEPT ![c] = result[c]]
    /\ result' = [result EXCEPT ![c] = NoReport]
    /\ frame' = [frame EXCEPT ![c] = NoFrame]
    /\ pc' = [pc EXCEPT ![c] = "call"]
    /\ UNCHANGED log_text

\* the report of a lone invocation, as one expression
RECURSIVE KeywordsOf(_, _)
KeywordsOf(text, i) ==
    IF i > Len(KEYWORDS) THEN <<>>
    ELSE (IF SearchIC(kw_re(KEYWORDS[i]), text) THEN <<KEYWORDS[i]>> ELSE <<>>)
           \o KeywordsOf(text, i + 1)

extract_indicators(x) ==
    LET text == OrEmpty(x)
        ips == Sorted(PySet(FindAll(ip_re, text)))
    IN  MakeReport([text |-> text, ips |-> ips, domains |-> Domains(text, ips),
                    urls |-> Sorted(PySet(FindAll(url_re, text))),
                    file_paths |-> FilePaths(text),
                    statuses |-> Sorted(PySet(FindAll(status_re, text))),
                    keywords |-> KeywordsOf(text, 1), k |-> Len(KEYWORDS) + 1])

(***************************************************************************)
(* Specifications                                                          *)
(***************************************************************************)
\* one caller, any input text
Init ==
    /\ \E t \in Inputs : log_text = [c \in Callers |-> IF c = 1 THEN t ELSE None]
    /\ pc = [c \in Callers |-> IF c = 1 THEN "call" ELSE "idle"]
    /\ frame = [c \in Callers |-> NoFrame]
    /\ result = [c \in Callers |-> NoReport]
    /\ previous = [c \in Callers |-> NoReport]

\* every caller invokes at once; callers are interchangeable, so the texts
\* are dealt in caller order
InitConc ==
    /\ \E f \in [Callers -> DOMAIN ConcInputs] :
           /\ \A c, d \in Callers : c < d => f[c] <= f[d]
           /\ log_text = [c \in Callers |-> ConcInputs[f[c]]]
    /\ pc = [c \in Callers |-> "call"]
    /\ frame = [c \in Callers |-> NoFrame]
    /\ result = [c \in Callers |-> NoReport]
    /\ previous = [c \in Callers |-> NoReport]

Next ==
    \E c \in Callers :
        \/ Enter(c)
        \/ StepIp(c)
        \/ StepDomain(c)
        \/ StepUrl(c)
        \/ StepPath(c)
        \/ StepStatus(c)
        \/ StepKeyword(c)
        \/ Return(c)
        \/ Again(c)

Spec == Init /\ [][Next]_vars

SpecConc == InitConc /\ [][Next]_vars

(***************************************************************************)
(* Properties                                                              *)
(***************************************************************************)
Done(c) == pc[c] = "done"

Kinds5 == {"ips", "domains", "urls", "file_paths", "status_codes"}
Kinds6 == Kinds5 \cup {"keywords"}

Alnum == Digit \cup UpperAZ \cup LowerAZ

\* C1 as stated: counts has an entry for each of the six kinds, keywords
\* included, and counts[k] is the length of the list of kind k
C1_CountsSixKinds ==
    \A c \in Callers :
        Done(c) =>
            /\ DOMAIN result[c].counts = Kinds6
            /\ \A k \in Kinds6 : result[c].counts[k] = Len(result[c][k])

\* C1 amended: counts has exactly the five entries ips, domains, urls,
\* file_paths, status_codes (none for keywords), and counts[k] is the length
\* of the list of kind k for each of the five
C1_CountsFiveKinds ==
    \A c \in Callers :
        Done(c) =>
            /\ DOMAIN result[c].counts = Kinds5
            /\ \A k \in Kinds5 : result[c].counts[k] = Len(result[c][k])

\* "100 599": two status codes, counted
C1_Witness ==
    \E c \in Callers :
        /\ Done(c)
        /\ result[c].counts.status_codes = 2
        /\ Len(result[c].status_codes) = 2

\* a before b in code point order, the proper prefix first
Precedes(a, b) ==
    LET n == IF Len(a) < Len(b) THEN Len(a) ELSE Len(b)
        diff == {i \in 1..n : a[i] # b[i]}
    IN  IF diff = {} THEN Len(a) < Len(b)
        ELSE LET i == CHOOSE x \in diff : \A y \in diff : x <= y
             IN  a[i] < b[i]

Ascending(list) == \A i \in 1..(Len(list) - 1) : Precedes(list[i], list[i + 1])

\* C2: each of ips, domains, urls, file_paths, status_codes is in strictly
\* ascending code point order, hence without duplicates
C2_ListsStrictlyAscending ==
    \A c \in Callers :
        Done(c) => \A k \in Kinds5 : Ascending(result[c][k])

\* "9.9.9.9 10.0.0.1": the longer address, found second, comes first
C2_Witness ==
    \E c \in Callers :
        /\ Done(c)
        /\ log_text[c] = <<57, 46, 57, 46, 57, 46, 57>> \o <<32>>
                           \o <<49, 48, 46, 48, 46, 48, 46, 49>>
        /\ result[c].ips = << <<49, 48, 46, 48, 46, 48, 46, 49>>,
                              <<57, 46, 57, 46, 57, 46, 57>> >>

\* C3: on None or "" the call does not raise and returns ok = true, every
\* count zero and every list empty
C3_NullOrEmpty ==
    \A c \in Callers :
        (log_text[c] = None \/ log_text[c] = <<>>) =>
            /\ pc[c] # "raised"
            /\ Done(c) =>
                 /\ result[c].ok
                 /\ \A k \in DOMAIN result[c].counts : result[c].counts[k] = 0
                 /\ \A k \in Kinds6 : result[c][k] = <<>>

C3_Witness == \E c \in Callers : Done(c) /\ log_text[c] = None

\* position of a literal in the fixed keyword list, 0 if it is not in it
KeywordIndex(kw) ==
    IF \E j \in DOMAIN KEYWORDS : KEYWORDS[j] = kw
    THEN CHOOSE j \in DOMAIN KEYWORDS : KEYWORDS[j] = kw
    ELSE 0

\* C4: keywords holds literals of the fixed list, each at most once, in the
\* order of that list
C4_KeywordsSubsequence ==
    \A c \in Callers :
        Done(c) =>
            LET kws == result[c].keywords
            IN  /\ \A i \in DOMAIN kws : KeywordIndex(kws[i]) # 0
                /\ \A i, j \in DOMAIN kws :
                       i < j => KeywordIndex(kws[i]) < KeywordIndex(kws[j])

\* "Denied ERROR" gives ["error", "denied"]
C4_Witness ==
    \E c \in Callers :
        /\ Done(c)
        /\ log_text[c] = <<68, 101, 110, 105, 101, 100>> \o <<32>>
                           \o <<69, 82, 82, 79, 82>>
        /\ result[c].keywords = <<KEYWORDS[1], KEYWORDS[3]>>

\* C5: no string is both in ips and in domains; "Connect to 10.0.0.1 and
\* api.example.com" gives ips ["10.0.0.1"] and domains ["api.example.com"]
C5_IpsDomainsDisjoint ==
    \A c \in Callers :
        Done(c) =>
            /\ PySet(result[c].ips) \cap PySet(result[c].domains) = {}
            /\ log_text[c] = ExampleNet =>
                 /\ result[c].ips = <<SubSeq(ExampleNet, 12, 19)>>
                 /\ result[c].domains = <<SubSeq(ExampleNet, 25, 39)>>

\* the example text, with one address and one host name found
C5_Witness ==
    \E c \in Callers :
        /\ Done(c)
        /\ log_text[c] = ExampleNet
        /\ Len(result[c].ips) = 1
        /\ Len(result[c].domains) = 1

\* the 3-digit strings with first digit 1 to 5 that stand in the text with
\* no character of glue right before or right after
StatusTokens(text, glue) ==
    {SubSeq(text, i, i + 2) :
        i \in {i \in 1..(Len(text) - 2) :
                 /\ text[i] \in 49..53
                 /\ text[i + 1] \in Digit
                 /\ text[i + 2] \in Digit
                 /\ ~(i > 1 /\ text[i - 1] \in glue)
                 /\ ~(i + 3 <= Len(text) /\ text[i + 3] \in glue)}}

\* C6 as stated: status_codes holds exactly the 3-digit strings with first
\* digit 1 to 5 that have no alphanumeric neighbour in the text
C6_StatusAlnumBounded ==
    \A c \in Callers :
        Done(c) => PySet(result[c].status_codes) = StatusTokens(frame[c].text, Alnum)

\* C6 amended: status_codes holds exactly the 3-digit strings with first
\* digit 1 to 5 that have no neighbour in the text that is alphanumeric or
\* an underscore; a token whose first digit is 0 or 6 to 9 is never reported
C6_StatusWordBounded ==
    \A c \in Callers :
        Done(c) =>
            /\ PySet(result[c].status_codes) = StatusTokens(frame[c].text, WordChar)
            /\ \A i \in DOMAIN result[c].status_codes :
                   result[c].status_codes[i][1] \in 49..53

\* "returned code 404 after 999 retries" gives ["404"]
C6_Witness ==
    \E c \in Callers :
        /\ Done(c)
        /\ log_text[c] = ExampleStatus
        /\ result[c].status_codes = <<SubSeq(ExampleStatus, 15, 17)>>

\* path p stands in the text between white space or the ends of the text
HoldsPath(text, p) ==
    \E i \in 1..(Len(text) - Len(p) + 1) :
        /\ SubSeq(text, i, i + Len(p) - 1) = p
        /\ (i = 1 \/ text[i - 1] \in Whitespace)
        /\ (i + Len(p) > Len(text) \/ text[i + Len(p)] \in Whitespace)

\* C7: a text that holds /var/log/app.log and C:\Users\test\file.txt, in
\* either order, on one line or on two, gives both as elements of file_paths
C7_BothPathStyles ==
    \A c \in Callers :
        (Done(c) /\ HoldsPath(frame[c].text, UnixPath) /\ HoldsPath(frame[c].text, WinPath)) =>
            /\ UnixPath \in PySet(result[c].file_paths)
            /\ WinPath \in PySet(result[c].file_paths)

\* C8: whatever the interleaving, each caller gets the report of a lone
\* invocation on its text, callers with the same text get the same report,
\* a second invocation gives the report of the first, and an invocation not
\* yet begun has had nothing written for it
C8_ConcurrentCallsIndependent ==
    \A c \in Callers :
        /\ Done(c) => result[c] = extract_indicators(log_text[c])
        /\ \A d \in Callers :
               (Done(c) /\ Done(d) /\ log_text[c] = log_text[d]) => result[c] = result[d]
        /\ (Done(c) /\ previous[c] # NoReport) => result[c] = previous[c]
        /\ pc[c] = "call" => (frame[c] = NoFrame /\ result[c] = NoReport)
        /\ pc[c] # "call" => frame[c].text = OrEmpty(log_text[c])

\* two callers done on "ERROR: Access Denied", one of them for the second
\* time
C8_Witness ==
    \E c, d \in Callers :
        /\ c # d
        /\ Done(c) /\ Done(d)
        /\ log_text[c] = ExampleKeywords
        /\ log_text[d] = ExampleKeywords
        /\ previous[d] # NoReport
        /\ result[d].keywords = <<KEYWORDS[1], KEYWORDS[3]>>

\* the literal kw stands in the text, whatever the case of its letters, with
\* no character of glue right before or right after
KeywordStands(text, kw, glue) ==
    \E i \in 1..(Len(text) - Len(kw) + 1) :
        /\ \A j \in 1..Len(kw) : Lower(text[i + j - 1]) = kw[j]
        /\ ~(i > 1 /\ text[i - 1] \in glue)
        /\ ~(i + Len(kw) <= Len(text) /\ text[i + Len(kw)] \in glue)

\* C9 as stated: a literal is in keywords exactly when it stands in the
\* text, case ignored, with no alphanumeric neighbour
C9_KeywordAlnumBounded ==
    \A c \in Callers :
        Done(c) =>
            \A j \in DOMAIN KEYWORDS :
                (KEYWORDS[j] \in PySet(result[c].keywords))
                    <=> KeywordStands(frame[c].text, KEYWORDS[j], Alnum)

\* C9 amended: a literal is in keywords exactly when it stands in the text,
\* case ignored, with no neighbour that is alphanumeric or an underscore
C9_KeywordWordBounded ==
    \A c \in Callers :
        Done(c) =>
            \A j \in DOMAIN KEYWORDS :
                (KEYWORDS[j] \in PySet(result[c].keywords))
                    <=> KeywordStands(frame[c].text, KEYWORDS[j], WordChar)

\* "ERROR:Denied": both found, with the colon and the ends of the text as
\* their neighbours
C9_Witness ==
    \E c \in Callers :
        /\ Done(c)
        /\ log_text[c] = <<69, 82, 82, 79, 82>> \o <<58>> \o <<68, 101, 110, 105, 101, 100>>
        /\ result[c].keywords = <<KEYWORDS[1], KEYWORDS[3]>>

\* C10: the exclusion of ips removes nothing from the raw domain matches:
\* domains holds every one of them, each ends in two letters, and each
\* element of ips ends in a digit
C10_ExclusionRemovesNothing ==
    \A c \in Callers :
        Done(c) =>
            LET raw == PySet(FindAll(domain_re, frame[c].text))
            IN  /\ PySet(result[c].domains) = raw
                /\ Len(result[c].domains) = Cardinality(raw)
                /\ \A d \in raw :
                       /\ Len(d) >= 2
                       /\ d[Len(d)] \in UpperAZ \cup LowerAZ
                       /\ d[Len(d) - 1] \in UpperAZ \cup LowerAZ
                /\ \A i \in DOMAIN result[c].ips :
                       result[c].ips[i][Len(result[c].ips[i])] \in Digit

\* "10.0.0.1.a.bc": the address is the head of the domain match
C10_Witness ==
    \E c \in Callers :
        /\ Done(c)
        /\ log_text[c] = <<49, 48, 46, 48, 46, 48, 46, 49>> \o <<46>> \o <<97, 46, 98, 99>>
        /\ result[c].ips = << <<49, 48, 46, 48, 46, 48, 46, 49>> >>
        /\ result[c].domains = <<log_text[c]>>

====
